---------------------------- MODULE Spec2Model ----------------------------
(***************************************************************************)
(* py-serialization: the Record (Node), the Hierarchy (TreeNode), the Flat *)
(* Index (id_dict, tn_dict) and the Customs object that reads, writes and  *)
(* translates them over the archive store.                                 *)
(*                                                                         *)
(* A Node is modelled by the three fields the translation reads: id, tag,  *)
(* parent_id.  id stands for the declared-int fields, tag for the declared *)
(* str fields, parent_id is the one Optional[int] field; the thirteen      *)
(* other fields are carried like id or tag and never inspected.            *)
(***************************************************************************)
EXTENDS Integers, Sequences, FiniteSets, TLC

(***************************************************************************)
(* Bounds of the model.                                                    *)
(***************************************************************************)
MaxNodes == 3
MaxIrregular == 1
MaxArchives == 2

\* Python's None, where an integer may stand too (Node.parent_id).
None == -1

\* inode numbers: one more than the nodes of a Hierarchy, so that a
\* parent_id can name a directory that is not part of the dataset.
Ids == 1 .. (MaxNodes + 1)

Tags == {"Directory", "File"}

Node(id, tag, parent_id) == [id |-> id, tag |-> tag, parent_id |-> parent_id]

\* Node._fields, in declaration order
NodeFields == <<"id", "tag", "parent_id">>

\* Node._field_types: the fields whose declared type is str
StrFields == {"tag"}

\* `not node.parent_id`: None and 0 are both falsy
Falsy(p) == p = None \/ p = 0

is_dir(node) == node.tag = "Directory"

(***************************************************************************)
(* TreeNode: me, files (list of Node), dirs (list of TreeNode).            *)
(***************************************************************************)
TreeNode(me, files, dirs) == [me |-> me, files |-> files, dirs |-> dirs]

\* TreeNode.new: the root of a Hierarchy, with empty collections
new(node) == TreeNode(node, <<>>, <<>>)

RECURSIVE Concat(_)
Concat(ss) == IF ss = <<>> THEN <<>> ELSE Head(ss) \o Concat(Tail(ss))

Range(s) == {s[i] : i \in 1 .. Len(s)}

\* (mutant) add putting a new child at the front of dirs
RECURSIVE add_front(_, _, _)
add_front(tn, path, node) ==
    IF path = <<>>
    THEN IF is_dir(node)
         THEN [tn EXCEPT !.dirs = <<TreeNode(node, <<>>, <<>>)>> \o @]
         ELSE [tn EXCEPT !.files = Append(@, node)]
    ELSE [tn EXCEPT !.dirs[Head(path)] = add_front(@, Tail(path), node)]

\* TreeNode.add, applied to the node that `path` (indexes into dirs) leads to:
\* a directory record becomes a new empty child at the end of dirs, a file
\* record goes to the end of files.
RECURSIVE add(_, _, _)
add(tn, path, node) ==
    IF path = <<>>
    THEN IF is_dir(node)
         THEN [tn EXCEPT !.dirs = Append(@, TreeNode(node, <<>>, <<>>))]
         ELSE [tn EXCEPT !.files = Append(@, node)]
    ELSE [tn EXCEPT !.dirs[Head(path)] = add(@, Tail(path), node)]

\* (mutant) node_iter yielding the subdirectories before the files
RECURSIVE node_iter_dirs_first(_)
node_iter_dirs_first(tn) ==
    <<tn.me>>
        \o Concat([i \in 1 .. Len(tn.dirs) |-> node_iter_dirs_first(tn.dirs[i])])
        \o tn.files

\* TreeNode.node_iter: me, then files, then each child's node_iter
RECURSIVE node_iter(_)
node_iter(tn) ==
    <<tn.me>> \o tn.files
        \o Concat([i \in 1 .. Len(tn.dirs) |-> node_iter(tn.dirs[i])])

\* TreeNode.iter: the node itself, then each child's iter
RECURSIVE iter(_)
iter(tn) == <<tn>> \o Concat([i \in 1 .. Len(tn.dirs) |-> iter(tn.dirs[i])])

RECURSIVE CountDirs(_)
CountDirs(s) ==
    IF s = <<>> THEN 0
    ELSE (IF is_dir(Head(s)) THEN 1 ELSE 0) + CountDirs(Tail(s))

\* (mutant) node_counts counting every record but the root as a file
node_counts_files(tn) ==
    LET s == node_iter(tn)
    IN  <<1, Len(s) - 1>>

\* TreeNode.node_counts: (dirs, files) counted over node_iter
node_counts(tn) ==
    LET s == node_iter(tn)
    IN  <<CountDirs(s), Len(s) - CountDirs(s)>>

RECURSIVE SumSeq(_)
SumSeq(s) == IF s = <<>> THEN 0 ELSE Head(s) + SumSeq(Tail(s))

\* TreeNodeTest._treenode_counts_recurse: len(dirs), len(files) summed
\* over the nodes
RECURSIVE treenode_counts_recurse(_)
treenode_counts_recurse(tn) ==
    LET sub == [i \in 1 .. Len(tn.dirs) |-> treenode_counts_recurse(tn.dirs[i])]
    IN  <<Len(tn.dirs) + SumSeq([i \in 1 .. Len(sub) |-> sub[i][1]]),
          Len(tn.files) + SumSeq([i \in 1 .. Len(sub) |-> sub[i][2]])>>

\* TreeNodeTest._treenode_counts: plus one for the root
treenode_counts(tn) ==
    LET c == treenode_counts_recurse(tn) IN <<c[1] + 1, c[2]>>

(***************************************************************************)
(* Python dicts keep insertion order; assigning an existing key replaces   *)
(* the value in place.  id_dict is the sequence of its values (key = id),  *)
(* tn_dict the sequence of its TreeNode shells (key = me.id), a shell      *)
(* naming its child directories by id.                                     *)
(***************************************************************************)
IndexOfId(d, id) ==
    IF \E i \in 1 .. Len(d) : d[i].id = id
    THEN CHOOSE i \in 1 .. Len(d) : d[i].id = id
    ELSE 0

\* result[item.id] = item
DictSet(d, node) ==
    LET i == IndexOfId(d, node.id)
    IN  IF i = 0 THEN Append(d, node) ELSE [d EXCEPT ![i] = node]

RECURSIVE DictFrom(_, _)
DictFrom(d, s) == IF s = <<>> THEN d ELSE DictFrom(DictSet(d, Head(s)), Tail(s))

\* TreeNode.to_id_dict
to_id_dict(tn) == DictFrom(<<>>, node_iter(tn))

Shell(me, files, dirs) == [me |-> me, files |-> files, dirs |-> dirs]

IndexOfKey(tnd, id) ==
    IF \E i \in 1 .. Len(tnd) : tnd[i].me.id = id
    THEN CHOOSE i \in 1 .. Len(tnd) : tnd[i].me.id = id
    ELSE 0

ShellOf(tn) ==
    Shell(tn.me, tn.files, [i \in 1 .. Len(tn.dirs) |-> tn.dirs[i].me.id])

RECURSIVE TnDictFrom(_, _)
TnDictFrom(tnd, s) ==
    IF s = <<>> THEN tnd
    ELSE LET sh == ShellOf(Head(s))
             i == IndexOfKey(tnd, sh.me.id)
         IN  TnDictFrom(IF i = 0 THEN Append(tnd, sh) ELSE [tnd EXCEPT ![i] = sh],
                        Tail(s))

\* TreeNode.to_tn_dict
to_tn_dict(tn) == TnDictFrom(<<>>, iter(tn))

Keys(d) == {d[i].id : i \in 1 .. Len(d)}
TnKeys(tnd) == {tnd[i].me.id : i \in 1 .. Len(tnd)}


(***************************************************************************)
(* Exceptions.  raised is the exception the last call ended with; a        *)
(* KeyError carries the key that was looked up.                            *)
(***************************************************************************)
Err(kind, key) == [kind |-> kind, key |-> key]
NoError == Err("none", 0)

(***************************************************************************)
(* The Customs object: filetype, treenode (None or a TreeNode), id_dict,   *)
(* tn_dict.  treenode is a sequence of at most one TreeNode: <<>> is None. *)
(***************************************************************************)
NoTree == <<>>

\* Customs.__init__
Customs(source_kind) ==
    [filetype |-> source_kind, treenode |-> NoTree, id_dict |-> <<>>,
     tn_dict |-> <<>>]

\* (mutant) the first loop without the is_dir() test
RECURSIVE MakeShellsAll(_)
MakeShellsAll(d) ==
    IF d = <<>> THEN <<>>
    ELSE <<Shell(Head(d), <<>>, <<>>)>> \o MakeShellsAll(Tail(d))

\* translate, first loop: a shell for every directory record of id_dict
RECURSIVE MakeShells(_)
MakeShells(d) ==
    IF d = <<>> THEN <<>>
    ELSE IF is_dir(Head(d))
         THEN <<Shell(Head(d), <<>>, <<>>)>> \o MakeShells(Tail(d))
         ELSE MakeShells(Tail(d))

\* (mutant) the second loop appending every shell that has a parent to the
\* dirs of the first shell
RECURSIVE LinkDirsFlat(_, _, _)
LinkDirsFlat(tnd, k, root) ==
    IF k > Len(tnd) THEN [tn_dict |-> tnd, root |-> root, raised |-> NoError]
    ELSE LET me == tnd[k].me
             j == IndexOfKey(tnd, me.parent_id)
         IN  IF Falsy(me.parent_id) THEN LinkDirsFlat(tnd, k + 1, me.id)
             ELSE IF j = 0
                  THEN [tn_dict |-> tnd, root |-> root,
                        raised |-> Err("KeyError", me.parent_id)]
                  ELSE LinkDirsFlat([tnd EXCEPT ![1].dirs = Append(@, me.id)],
                                    k + 1, root)

\* translate, second loop, from shell k on: a shell with no parent becomes
\* self.treenode (root is its key), any other is appended to its parent's
\* dirs; tn_dict[parent_id] of an absent key raises KeyError and leaves
\* everything done so far in place.
RECURSIVE LinkDirs(_, _, _)
LinkDirs(tnd, k, root) ==
    IF k > Len(tnd) THEN [tn_dict |-> tnd, root |-> root, raised |-> NoError]
    ELSE LET me == tnd[k].me
             j == IndexOfKey(tnd, me.parent_id)
         IN  IF Falsy(me.parent_id) THEN LinkDirs(tnd, k + 1, me.id)
             ELSE IF j = 0
                  THEN [tn_dict |-> tnd, root |-> root,
                        raised |-> Err("KeyError", me.parent_id)]
                  ELSE LinkDirs([tnd EXCEPT ![j].dirs = Append(@, me.id)],
                                k + 1, root)

\* (mutant) the third loop putting each file at the front of files
RECURSIVE LinkFilesFront(_, _, _)
LinkFilesFront(tnd, d, k) ==
    IF k > Len(d) THEN [tn_dict |-> tnd, raised |-> NoError]
    ELSE IF is_dir(d[k]) THEN LinkFilesFront(tnd, d, k + 1)
         ELSE LET j == IndexOfKey(tnd, d[k].parent_id)
              IN  IF j = 0
                  THEN [tn_dict |-> tnd, raised |-> Err("KeyError", d[k].parent_id)]
                  ELSE LinkFilesFront([tnd EXCEPT ![j].files = <<d[k]>> \o @], d, k + 1)

\* (mutant) the third loop skipping a file whose parent is not in tn_dict
RECURSIVE LinkFilesSkip(_, _, _)
LinkFilesSkip(tnd, d, k) ==
    IF k > Len(d) THEN [tn_dict |-> tnd, raised |-> NoError]
    ELSE IF is_dir(d[k]) THEN LinkFilesSkip(tnd, d, k + 1)
         ELSE LET j == IndexOfKey(tnd, d[k].parent_id)
              IN  IF j = 0 THEN LinkFilesSkip(tnd, d, k + 1)
                  ELSE LinkFilesSkip([tnd EXCEPT ![j].files = Append(@, d[k])], d, k + 1)

\* translate, third loop, from record k of id_dict on: every file record is
\* appended to its parent's files
RECURSIVE LinkFiles(_, _, _)
LinkFiles(tnd, d, k) ==
    IF k > Len(d) THEN [tn_dict |-> tnd, raised |-> NoError]
    ELSE IF is_dir(d[k]) THEN LinkFiles(tnd, d, k + 1)
         ELSE LET j == IndexOfKey(tnd, d[k].parent_id)
              IN  IF j = 0
                  THEN [tn_dict |-> tnd, raised |-> Err("KeyError", d[k].parent_id)]
                  ELSE LinkFiles([tnd EXCEPT ![j].files = Append(@, d[k])], d, k + 1)

\* The TreeNode object behind key id of tn_dict, as a value.  The shell that
\* becomes self.treenode has no parent and is in no dirs list, and every
\* other shell is in the dirs of one shell only, so this is a finite tree.
RECURSIVE Materialize(_, _)
Materialize(tnd, id) ==
    LET sh == tnd[IndexOfKey(tnd, id)]
    IN  TreeNode(sh.me, sh.files,
                 [i \in 1 .. Len(sh.dirs) |-> Materialize(tnd, sh.dirs[i])])

\* translate, the elif branch: TreeNode and tn_dict from id_dict
Reconstruct(c) ==
    LET dirs == LinkDirs(MakeShells(c.id_dict), 1, None)
        files == IF dirs.raised = NoError
                 THEN LinkFiles(dirs.tn_dict, c.id_dict, 1)
                 ELSE [tn_dict |-> dirs.tn_dict, raised |-> dirs.raised]
    IN  [c |-> [c EXCEPT !.tn_dict = files.tn_dict,
                         !.treenode = IF dirs.root = None THEN NoTree
                                      ELSE <<Materialize(files.tn_dict, dirs.root)>>],
         raised |-> files.raised]

\* the branch translate takes
Branch(c) ==
    IF c.treenode # NoTree THEN "flatten"
    ELSE IF c.id_dict # <<>> THEN "reconstruct" ELSE "nothing"

\* (mutant) translate testing self.id_dict before self.treenode
translate_id_dict_first(c) ==
    IF c.id_dict # <<>> THEN Reconstruct(c)
    ELSE IF c.treenode # NoTree
    THEN [c |-> [c EXCEPT !.id_dict = to_id_dict(c.treenode[1]),
                          !.tn_dict = to_tn_dict(c.treenode[1])],
          raised |-> NoError]
    ELSE [c |-> c, raised |-> Err("ValueError", 0)]

\* Customs.translate
translate(c) ==
    IF c.treenode # NoTree
    THEN [c |-> [c EXCEPT !.id_dict = to_id_dict(c.treenode[1]),
                          !.tn_dict = to_tn_dict(c.treenode[1])],
          raised |-> NoError]
    ELSE IF c.id_dict # <<>> THEN Reconstruct(c)
    ELSE [c |-> c, raised |-> Err("ValueError", 0)]

(***************************************************************************)
(* FileType and the archive store: one file per format for the case.  An   *)
(* archive holds a pickled object (tree), CSV rows of text cells (rows) or *)
(* a list of maps of typed values (items), as its format has it.           *)
(***************************************************************************)
FileType ==
    {"PICKLE", "CBOR", "CBOR2", "CSV", "JSON", "MSGPACK", "PROTOBUF",
     "SIMPLEJSON", "UJSON"}

\* FileType.all: the members in definition order
all == <<"PICKLE", "CBOR", "CBOR2", "CSV", "JSON", "MSGPACK", "PROTOBUF",
         "SIMPLEJSON", "UJSON">>

\* FileType.all_but_pickle
all_but_pickle == SelectSeq(all, LAMBDA x : x # "PICKLE")

\* the formats written and read as a list of maps, one per record
ListFormats == {"CBOR", "CBOR2", "JSON", "MSGPACK", "SIMPLEJSON", "UJSON"}

Absent == [exists |-> FALSE, tree |-> <<>>, rows |-> <<>>, items |-> <<>>]
PickleFile(t) == [exists |-> TRUE, tree |-> t, rows |-> <<>>, items |-> <<>>]
CsvFile(rows) == [exists |-> TRUE, tree |-> <<>>, rows |-> rows, items |-> <<>>]
ListFile(items) == [exists |-> TRUE, tree |-> <<>>, rows |-> <<>>, items |-> items]

(***************************************************************************)
(* CSV: every cell is text.  A text is a sequence of characters; a str     *)
(* field is kept as one piece, an int is written in decimal, None as the   *)
(* empty text (csv.DictWriter), and int() parses a text back.              *)
(***************************************************************************)
Digits == <<"0", "1", "2", "3", "4", "5", "6", "7", "8", "9">>

RECURSIVE IntToText(_)
IntToText(n) ==
    IF n < 10 THEN <<Digits[n + 1]>>
    ELSE IntToText(n \div 10) \o <<Digits[(n % 10) + 1]>>

StrToText(s) == IF s = "" THEN <<>> ELSE <<s>>
TextToStr(t) == IF t = <<>> THEN "" ELSE t[1]

\* a cell as csv.DictWriter writes the value
CellOf(field, v) ==
    IF field \in StrFields THEN StrToText(v)
    ELSE IF v = None THEN <<>> ELSE IntToText(v)

IsDigit(ch) == \E d \in 1 .. 10 : Digits[d] = ch
DigitVal(ch) == (CHOOSE d \in 1 .. 10 : Digits[d] = ch) - 1

RECURSIVE DigitsValue(_)
DigitsValue(t) ==
    IF t = <<>> THEN 0
    ELSE DigitsValue(SubSeq(t, 1, Len(t) - 1)) * 10 + DigitVal(t[Len(t)])

\* int(text): ValueError for the empty text and for anything but digits
IntParses(t) == t # <<>> /\ \A i \in 1 .. Len(t) : IsDigit(t[i])

\* w.writerow(item._asdict())
CsvRow(node) ==
    [id |-> CellOf("id", node.id), tag |-> CellOf("tag", node.tag),
     parent_id |-> CellOf("parent_id", node.parent_id)]

\* (mutant) the type conversion applied to the id only
LineParsesIdOnly(line) == "id" \in StrFields \/ IntParses(line.id)

\* the type conversion of one line: every field not declared str through int()
LineParses(line) ==
    /\ "id" \in StrFields \/ IntParses(line.id)
    /\ "tag" \in StrFields \/ IntParses(line.tag)
    /\ "parent_id" \in StrFields \/ IntParses(line.parent_id)

ParseCell(field, t) == IF field \in StrFields THEN TextToStr(t) ELSE DigitsValue(t)

\* Node(**line) after the conversion
NodeOfLine(line) ==
    Node(ParseCell("id", line.id), ParseCell("tag", line.tag),
         ParseCell("parent_id", line.parent_id))

\* the for loop of read() over the lines of a CSV archive, from id_dict d:
\* stops at the first line that int() rejects, keeping what it has read
RECURSIVE ReadCsvLines(_, _)
ReadCsvLines(d, rows) ==
    IF rows = <<>> THEN [id_dict |-> d, raised |-> NoError]
    ELSE IF ~LineParses(Head(rows))
         THEN [id_dict |-> d, raised |-> Err("ValueError", 0)]
         ELSE ReadCsvLines(DictSet(d, NodeOfLine(Head(rows))), Tail(rows))

(***************************************************************************)
(* The list formats keep the type of a value: a number, a string or null.  *)
(***************************************************************************)
Num(n) == [t |-> "num", n |-> n, s |-> ""]
Str(s) == [t |-> "str", n |-> 0, s |-> s]
Null == [t |-> "null", n |-> 0, s |-> ""]

IntValue(v) == IF v = None THEN Null ELSE Num(v)

\* Node._asdict, as the encoder writes it
asdict(node) ==
    [id |-> IntValue(node.id), tag |-> Str(node.tag),
     parent_id |-> IntValue(node.parent_id)]

PyInt(v) == IF v.t = "null" THEN None ELSE v.n

\* Node(**item)
NodeOfItem(item) == Node(PyInt(item.id), item.tag.s, PyInt(item.parent_id))

\* Customs.to_dict_list
to_dict_list(c) == [i \in 1 .. Len(c.id_dict) |-> asdict(c.id_dict[i])]

\* for item in load(f): self.id_dict[item['id']] = Node(**item)
ReadItems(items) ==
    DictFrom(<<>>, [i \in 1 .. Len(items) |-> NodeOfItem(items[i])])

\* Customs.read
read(c, st) ==
    LET f == st[c.filetype]
        missing == [c |-> c, raised |-> Err("FileNotFoundError", 0)]
    IN  IF c.filetype = "PICKLE"
        THEN IF ~f.exists THEN missing
             ELSE [c |-> [c EXCEPT !.treenode = f.tree], raised |-> NoError]
        ELSE IF c.filetype = "CSV"
        THEN IF ~f.exists
             THEN [c |-> [c EXCEPT !.id_dict = <<>>],
                   raised |-> Err("FileNotFoundError", 0)]
             ELSE LET r == ReadCsvLines(<<>>, f.rows)
                  IN  [c |-> [c EXCEPT !.id_dict = r.id_dict], raised |-> r.raised]
        ELSE IF c.filetype \in ListFormats
        THEN IF ~f.exists THEN missing
             ELSE [c |-> [c EXCEPT !.id_dict = ReadItems(f.items)],
                   raised |-> NoError]
        ELSE [c |-> c, raised |-> NoError]

\* Customs.write: the archive of the format afterwards, the records handed to
\* the encoder, and the exception
write(c, kind, st) ==
    IF kind = "PICKLE"
    THEN [file |-> PickleFile(c.treenode),
          records |-> IF c.treenode = NoTree THEN <<>> ELSE node_iter(c.treenode[1]),
          raised |-> NoError]
    ELSE IF kind = "CSV"
    THEN IF c.treenode = NoTree
         THEN [file |-> CsvFile(<<>>), records |-> <<>>,
               raised |-> Err("AttributeError", 0)]
         ELSE LET s == node_iter(c.treenode[1])
              IN  [file |-> CsvFile([i \in 1 .. Len(s) |-> CsvRow(s[i])]),
                   records |-> s, raised |-> NoError]
    ELSE IF kind \in ListFormats
    THEN [file |-> ListFile(to_dict_list(c)), records |-> c.id_dict,
          raised |-> NoError]
    ELSE [file |-> st[kind], records |-> <<>>, raised |-> NoError]

(***************************************************************************)
(* Bench.validate: writes every format from the pickle, reads and          *)
(* translates each of all_but_pickle, then asserts that each equals the    *)
(* pickle's collections.                                                   *)
(***************************************************************************)
\* dict == dict: the same keys with the same values, in any order
DictEq(d1, d2) == Range(d1) = Range(d2)

\* c.write(ft) for each format of fts, in order
RECURSIVE WriteAll(_, _, _)
WriteAll(c, fts, st) ==
    IF fts = <<>> THEN [store |-> st, raised |-> NoError]
    ELSE LET w == write(c, Head(fts), st)
             st2 == [st EXCEPT ![Head(fts)] = w.file]
         IN  IF w.raised # NoError THEN [store |-> st2, raised |-> w.raised]
             ELSE WriteAll(c, Tail(fts), st2)

\* Bench._create_read_targets(True)
create_read_targets(st) ==
    LET r == read(Customs("PICKLE"), st)
        t == translate(r.c)
    IN  IF r.raised # NoError THEN [store |-> st, raised |-> r.raised]
        ELSE IF t.raised # NoError THEN [store |-> st, raised |-> t.raised]
        ELSE WriteAll(t.c, all_but_pickle, st)

\* c = Customs(case, ft); c.read(); c.translate()
Load(ft, st) ==
    LET r == read(Customs(ft), st)
    IN  IF r.raised # NoError THEN r ELSE translate(r.c)

\* the loop over all_but_pickle that fills `others`
RECURSIVE LoadAll(_, _)
LoadAll(fts, st) ==
    IF fts = <<>> THEN [others |-> <<>>, raised |-> NoError]
    ELSE LET l == Load(Head(fts), st)
             rest == LoadAll(Tail(fts), st)
         IN  IF l.raised # NoError THEN [others |-> <<>>, raised |-> l.raised]
             ELSE [others |-> <<l.c>> \o rest.others, raised |-> rest.raised]

\* the four asserts, for one c of others
Asserts(c_pickle, c) ==
    /\ Len(c_pickle.id_dict) = Len(c.id_dict)
    /\ DictEq(c_pickle.id_dict, c.id_dict)
    /\ c_pickle.treenode = c.treenode
    /\ DictEq(c_pickle.tn_dict, c.tn_dict)

\* Bench.validate: the store it leaves and how it ends ("passed" when it
\* prints that all formats passed validation)
validate(st) ==
    LET t == create_read_targets(st)
        p == Load("PICKLE", t.store)
        o == LoadAll(all_but_pickle, t.store)
        outcome ==
            IF t.raised # NoError THEN t.raised.kind
            ELSE IF p.raised # NoError THEN p.raised.kind
            ELSE IF o.raised # NoError THEN o.raised.kind
            ELSE IF \A i \in 1 .. Len(o.others) : Asserts(p.c, o.others[i])
                 THEN "passed"
                 ELSE "AssertionError"
    IN  [store |-> t.store, outcome |-> outcome]

(***************************************************************************)
(* The Hierarchies a pickle may hold, up to MaxNodes records.  A record is *)
(* regular when its id is new in the traversal and its parent_id is the id *)
(* of the node that holds it (absent or zero for the root).  Node.new      *)
(* resolves the path it is given, so a hard link repeats an inode already  *)
(* catalogued and a symbolic link yields the record of its target, parent  *)
(* included; a root pickled without remove_root_parent keeps its parent.   *)
(* At most MaxIrregular records of a Hierarchy are irregular.              *)
(***************************************************************************)
RECURSIVE holder_iter(_, _)
holder_iter(tn, h) ==
    <<h>> \o [i \in 1 .. Len(tn.files) |-> tn.me.id]
        \o Concat([i \in 1 .. Len(tn.dirs) |-> holder_iter(tn.dirs[i], tn.me.id)])

IrregularAt(tn) ==
    LET s == node_iter(tn)
        h == holder_iter(tn, 0)
    IN  {i \in 1 .. Len(s) :
            \/ i = 1 /\ ~Falsy(s[i].parent_id)
            \/ i > 1 /\ s[i].parent_id # h[i]
            \/ \E j \in 1 .. (i - 1) : s[j].id = s[i].id}

UniqueIds(tn) ==
    LET s == node_iter(tn)
    IN  \A i, j \in 1 .. Len(s) : s[i].id = s[j].id => i = j

\* the Hierarchy invariant of the data model: unique ids, a directory root
\* with no parent, every other record's parent_id the id of its holder
Regular(tn) == is_dir(tn.me) /\ IrregularAt(tn) = {}

IdsOf(tn) == {n.id : n \in Range(node_iter(tn))}

RECURSIVE Paths(_)
Paths(tn) ==
    {<<>>} \cup UNION {{<<i>> \o p : p \in Paths(tn.dirs[i])} : i \in 1 .. Len(tn.dirs)}

\* the next inode number not yet in the Hierarchy
FreshId(tn) ==
    CHOOSE i \in Ids : i \notin IdsOf(tn) /\ \A j \in Ids : j < i => j \in IdsOf(tn)

RECURSIVE NodeAt(_, _)
NodeAt(tn, path) ==
    IF path = <<>> THEN tn ELSE NodeAt(tn.dirs[Head(path)], Tail(path))

SameInodeSameTag(tn, node) ==
    \A n \in Range(node_iter(tn)) : n.id = node.id => n.tag = node.tag

\* the records one more entry of the directory with id `holder` can yield:
\* the regular ones (a new inode whose parent is the holder) and, while
\* `spare`, the irregular ones (an inode already catalogued, which is the
\* same kind of entry again, or a parent other than the holder)
Entries(tn, holder, spare) ==
    {Node(FreshId(tn), tag, holder) : tag \in Tags}
        \cup IF ~spare THEN {}
              ELSE {n \in {Node(id, tag, p) : id \in {FreshId(tn)} \cup IdsOf(tn),
                                             tag \in Tags, p \in {None, 0} \cup Ids} :
                      /\ n.id \in IdsOf(tn) \/ n.parent_id # holder
                      /\ SameInodeSameTag(tn, n)}

Extensions(tn) ==
    LET spare == Cardinality(IrregularAt(tn)) < MaxIrregular
    IN  UNION {{add(tn, path, n) : n \in Entries(tn, NodeAt(tn, path).me.id, spare)} :
                 path \in Paths(tn)}

Roots ==
    {new(Node(1, "Directory", p)) : p \in
        {q \in {None, 0} \cup Ids : MaxIrregular > 0 \/ Falsy(q)}}

RECURSIVE Level(_)
Level(k) == IF k = 1 THEN Roots ELSE UNION {Extensions(tn) : tn \in Level(k - 1)}

Hierarchies == UNION {Level(k) : k \in 1 .. MaxNodes}

(***************************************************************************)
(* State.                                                                  *)
(***************************************************************************)
VARIABLES
    store,       \* the archive of each FileType for the case
    written,     \* per FileType, the records handed to its encoder last
    filetype,    \* the Customs object in use: self.filetype
    treenode,    \*   self.treenode
    id_dict,     \*   self.id_dict
    tn_dict,     \*   self.tn_dict
    raised,      \* the exception the last call ended with
    last,        \* the last call: [op, arg]
    validation,  \* how Bench.validate ended, "none" before it ran
    counts,      \* what tn.node_counts() returned to test_node_counts
    returned,    \* what TreeNode.add returned: None, self or the new child
    report,      \* what main printed with --validate: (dirs, files) per label
    listing,     \* the directory given to collect_data: its entries, if any
    visits       \* the entries collect_data_recurse was called for, in order

vars == <<store, written, filetype, treenode, id_dict, tn_dict, raised, last,
          validation, counts, returned, report, listing, visits>>

self == [filetype |-> filetype, treenode |-> treenode, id_dict |-> id_dict,
         tn_dict |-> tn_dict]

Call(op, arg) == [op |-> op, arg |-> arg]

\* a reference to a TreeNode of the Hierarchy: the indexes into dirs that
\* lead to it from the root
Returned(kind, path) == [kind |-> kind, path |-> path]
NoReturn == Returned("None", <<>>)

\* the generator has pickled a Hierarchy; a Customs for it is constructed
Init ==
    \E h \in Hierarchies :
        /\ store = [ft \in FileType |->
                      IF ft = "PICKLE" THEN PickleFile(<<h>>) ELSE Absent]
        /\ written = [ft \in FileType |->
                      IF ft = "PICKLE" THEN node_iter(h) ELSE <<>>]
        /\ filetype = "PICKLE"
        /\ treenode = NoTree
        /\ id_dict = <<>>
        /\ tn_dict = <<>>
        /\ raised = NoError
        /\ last = Call("init", "PICKLE")
        /\ validation = "none"
        /\ counts = <<0, 0>>
        /\ returned = NoReturn
        /\ report = <<>>
        /\ listing = <<>>
        /\ visits = <<>>

\* c = Customs(case, ft), as the callers construct it: for an archive that
\* exists (customs.main checks ift.exists; Bench has just written it) or for
\* PROTOBUF, which Bench constructs and nothing writes
CustomsNew(ft) ==
    /\ store[ft].exists \/ ft = "PROTOBUF"
    /\ filetype' = ft
    /\ treenode' = NoTree
    /\ id_dict' = <<>>
    /\ tn_dict' = <<>>
    /\ raised' = NoError
    /\ last' = Call("init", ft)
    /\ UNCHANGED <<store, written, validation, counts, returned, report, listing, visits>>

\* c.read()
Read ==
    \E r \in {read(self, store)} :
        /\ treenode' = r.c.treenode
        /\ id_dict' = r.c.id_dict
        /\ tn_dict' = r.c.tn_dict
        /\ raised' = r.raised
        /\ last' = Call("read", filetype)
        /\ UNCHANGED <<store, written, filetype, validation, counts, returned, report, listing, visits>>

\* c.translate()
Translate ==
    \E r \in {translate(self)} :
        /\ treenode' = r.c.treenode
        /\ id_dict' = r.c.id_dict
        /\ tn_dict' = r.c.tn_dict
        /\ raised' = r.raised
        /\ last' = Call("translate", Branch(self))
        /\ UNCHANGED <<store, written, filetype, validation, counts, returned, report, listing, visits>>

Archives == {ft \in FileType : store[ft].exists}

\* c.write(kind)
Write(kind) ==
    /\ store[kind].exists \/ kind = "PROTOBUF" \/ Cardinality(Archives) < MaxArchives
    /\ \E w \in {write(self, kind, store)} :
           /\ store' = [store EXCEPT ![kind] = w.file]
           /\ written' = IF kind = "PROTOBUF" THEN written
                         ELSE [written EXCEPT ![kind] = w.records]
           /\ raised' = w.raised
    /\ last' = Call("write", kind)
    /\ UNCHANGED <<filetype, treenode, id_dict, tn_dict, validation, counts, returned, report, listing, visits>>

Next ==
    \/ \E ft \in FileType : CustomsNew(ft)
    \/ Read
    \/ Translate
    \/ \E kind \in FileType : Write(kind)

\* the Customs object under any sequence of calls
Spec == Init /\ [][Next]_vars

(***************************************************************************)
(* The bench and the tests, which work from the pickle.                    *)
(***************************************************************************)
\* Bench._create_read_targets(True), with every FileType in files_types
CreateReadTargets ==
    /\ validation = "none"
    /\ ~store["CSV"].exists
    /\ \E t \in {create_read_targets(store)} :
           /\ store' = t.store
           /\ raised' = t.raised
    /\ last' = Call("create_read_targets", "")
    /\ UNCHANGED <<written, filetype, treenode, id_dict, tn_dict, validation, counts, returned, report, listing, visits>>

\* c = Customs(case, ft); c.read(); c.translate(): one turn of the loops of
\* Bench.validate
LoadFormat(ft) ==
    /\ validation = "none"
    /\ store[ft].exists \/ ft = "PROTOBUF"
    /\ \E r \in {read(Customs(ft), store)}, l \in {Load(ft, store)} :
           /\ filetype' = ft
           /\ treenode' = l.c.treenode
           /\ id_dict' = l.c.id_dict
           /\ tn_dict' = l.c.tn_dict
           /\ raised' = l.raised
           /\ last' = IF r.raised # NoError THEN Call("read", ft)
                      ELSE Call("translate", Branch(r.c))
    /\ UNCHANGED <<store, written, validation, counts, returned, report, listing, visits>>

\* Bench(...).validate(), a run of its own from the pickle
Validate ==
    /\ validation = "none"
    /\ last = Call("init", "PICKLE")
    /\ \E v \in {validate(store)} :
           /\ store' = v.store
           /\ validation' = v.outcome
    /\ last' = Call("validate", "")
    /\ UNCHANGED <<written, filetype, treenode, id_dict, tn_dict, raised, counts, returned, report, listing, visits>>

\* TreeNodeTest.test_node_counts: tn = Customs(case, PICKLE).read();
\* dirs, files = tn.node_counts()
TestNodeCounts ==
    /\ validation = "none"
    /\ last = Call("init", "PICKLE")
    /\ \E r \in {read(Customs("PICKLE"), store)} :
           /\ r.raised = NoError
           /\ r.c.treenode # NoTree
           /\ filetype' = "PICKLE"
           /\ treenode' = r.c.treenode
           /\ counts' = node_counts(r.c.treenode[1])
    /\ last' = Call("node_counts", "")
    /\ UNCHANGED <<store, written, id_dict, tn_dict, raised, validation, returned, report, listing, visits>>

NextBench ==
    \/ CreateReadTargets
    \/ \E ft \in FileType : LoadFormat(ft)
    \/ Validate
    \/ TestNodeCounts

SpecBench == Init /\ [][NextBench]_vars

(***************************************************************************)
(* The generator: collect_data builds the Hierarchy of a directory with    *)
(* TreeNode.new and TreeNode.add, pickle_dataset removes the root's parent *)
(* and pickles it.                                                         *)
(***************************************************************************)
\* the inode of the directory that holds the path given to the generator:
\* Node.new always records p.parent's inode, which is not in the dataset
RootParents == {MaxNodes + 1}

\* (mutant) remove_root_parent clearing the parent of the root's files too
remove_root_parent_files(root) ==
    [root EXCEPT !.me.parent_id = 0,
                 !.files = [i \in 1 .. Len(root.files) |->
                               [root.files[i] EXCEPT !.parent_id = 0]]]

\* generator.remove_root_parent
remove_root_parent(root) == [root EXCEPT !.me.parent_id = 0]

\* what add returns for a record: the new child (self.dirs[-1]) for a
\* directory, self for a file
add_returns(tn, path, node) ==
    IF is_dir(node)
    THEN Returned("child", Append(path, Len(NodeAt(tn, path).dirs) + 1))
    ELSE Returned("self", path)

\* before anything is catalogued
InitGenerator ==
    /\ store = [ft \in FileType |-> Absent]
    /\ written = [ft \in FileType |-> <<>>]
    /\ filetype = "PICKLE"
    /\ treenode = NoTree
    /\ id_dict = <<>>
    /\ tn_dict = <<>>
    /\ raised = NoError
    /\ last = Call("init", "PICKLE")
    /\ validation = "none"
    /\ counts = <<0, 0>>
    /\ returned = NoReturn
    /\ report = <<>>
    /\ listing = <<>>
    /\ visits = <<>>

\* result = TreeNode.new(p): p may be a directory or a file
TreeNodeNew ==
    /\ treenode = NoTree
    /\ last.op = "init"
    /\ \E tag \in Tags, parent \in RootParents :
           /\ treenode' = <<new(Node(1, tag, parent))>>
           /\ last' = Call("new", tag)
    /\ returned' = Returned("child", <<>>)
    /\ UNCHANGED <<store, written, filetype, id_dict, tn_dict, raised, validation,
                   counts, report, listing, visits>>

\* child = tree_node.add(item), for an item of the directory at `path`
\* (collect_data_recurse iterates directories only): Node.new(item) yields a
\* record, or raises and add prints the exception and returns None.  The
\* record's parent_id is the inode of p.parent, never None or 0.
TreeNodeAdd(path) ==
    /\ last.op \in {"new", "add"}
    /\ treenode # NoTree
    /\ path \in Paths(treenode[1])
    /\ is_dir(treenode[1].me)
    /\ Len(node_iter(treenode[1])) < MaxNodes
    /\ \E tn \in {treenode[1]} :
         \E spare \in {Cardinality(IrregularAt(remove_root_parent(tn))) < MaxIrregular} :
           \/ \E node \in {n \in Entries(tn, NodeAt(tn, path).me.id, spare) :
                                  ~Falsy(n.parent_id)} :
                  /\ treenode' = <<add(tn, path, node)>>
                  /\ returned' = add_returns(tn, path, node)
                  /\ last' = Call("add", node.tag)
           \/ /\ treenode' = treenode
              /\ returned' = NoReturn
              /\ last' = Call("add", "exception")
    /\ UNCHANGED <<store, written, filetype, id_dict, tn_dict, raised, validation,
                   counts, report, listing, visits>>

\* pickle_dataset, after collect_data returned the root: c.treenode =
\* remove_root_parent(root); c.write(FileType.PICKLE)
PickleDataset ==
    /\ last.op \in {"new", "add", "collect_data"}
    /\ treenode # NoTree
    /\ is_dir(treenode[1].me)
    /\ \E c \in {[Customs("PICKLE") EXCEPT
                      !.treenode = <<remove_root_parent(treenode[1])>>]} :
         \E w \in {write(c, "PICKLE", store)} :
           /\ treenode' = c.treenode
           /\ store' = [store EXCEPT !["PICKLE"] = w.file]
           /\ written' = [written EXCEPT !["PICKLE"] = w.records]
           /\ raised' = w.raised
    /\ filetype' = "PICKLE"
    /\ id_dict' = <<>>
    /\ tn_dict' = <<>>
    /\ last' = Call("pickle_dataset", "")
    /\ UNCHANGED <<validation, counts, returned, report, listing, visits>>

NextGenerator ==
    \/ TreeNodeNew
    \/ \E path \in UNION {Paths(h) : h \in Hierarchies} : TreeNodeAdd(path)
    \/ PickleDataset

SpecGenerator == InitGenerator /\ [][NextGenerator]_vars

(***************************************************************************)
(* collect_data over a directory.  An entry of the directory is what       *)
(* p.iterdir() yields: `ok` is whether Node.new(item) yields a record and  *)
(* `node` is that record, whose tag is also what item.is_dir() says (both  *)
(* follow links); `excluded` is whether item.name is in exclusions;        *)
(* `entries` is what item.iterdir() would list.                            *)
(***************************************************************************)
Entry(ok, node, excluded, entries) ==
    [ok |-> ok, node |-> node, excluded |-> excluded, entries |-> entries]

RECURSIVE EntryPaths(_)
EntryPaths(e) ==
    {<<>>} \cup UNION {{<<i>> \o q : q \in EntryPaths(e.entries[i])} :
                         i \in 1 .. Len(e.entries)}

RECURSIVE EntryAt(_, _)
EntryAt(e, q) == IF q = <<>> THEN e ELSE EntryAt(e.entries[Head(q)], Tail(q))

RECURSIVE AppendEntry(_, _, _)
AppendEntry(e, q, item) ==
    IF q = <<>> THEN [e EXCEPT !.entries = Append(@, item)]
    ELSE [e EXCEPT !.entries[Head(q)] = AppendEntry(@, Tail(q), item)]

\* the path given to collect_data: a directory or a file
RootEntries ==
    {Entry(TRUE, Node(1, tag, parent), FALSE, <<>>) :
        tag \in Tags, parent \in RootParents}

\* one more entry, with the next inode number, in a directory of e
MoreEntries(e) ==
    LET n == Cardinality(EntryPaths(e))
    IN  UNION {{AppendEntry(e, q, Entry(ok, Node(n + 1, tag, EntryAt(e, q).node.id),
                                        ex, <<>>)) :
                  ok \in BOOLEAN, tag \in Tags, ex \in BOOLEAN} :
               q \in {x \in EntryPaths(e) : is_dir(EntryAt(e, x).node)}}

RECURSIVE ListingLevel(_)
ListingLevel(k) ==
    IF k = 1 THEN RootEntries
    ELSE UNION {MoreEntries(e) : e \in ListingLevel(k - 1)}

\* the directories of up to MaxNodes entries
Listings == UNION {ListingLevel(k) : k \in 1 .. MaxNodes}

\* (mutant) collect_data_recurse without the test of exclusions
RECURSIVE collect_data_recurse_all(_, _, _, _, _)
collect_data_recurse_all(p, q, tree_node, k, acc) ==
    IF k > Len(p.entries) THEN acc
    ELSE LET item == p.entries[k]
             child == IF item.ok THEN add_returns(acc.tree, tree_node, item.node)
                      ELSE NoReturn
             added == IF item.ok THEN add(acc.tree, tree_node, item.node)
                      ELSE acc.tree
         IN  IF is_dir(item.node) /\ child.kind # "None"
             THEN collect_data_recurse_all(p, q, tree_node, k + 1,
                      collect_data_recurse_all(item, Append(q, k), child.path, 1,
                          [tree |-> added, visits |-> Append(acc.visits, Append(q, k))]))
             ELSE collect_data_recurse_all(p, q, tree_node, k + 1,
                      [tree |-> added, visits |-> acc.visits])

\* collect_data_recurse(p, tree_node, exclusions), from item k of p.iterdir()
\* on: q is where p is in the listing, tree_node where its TreeNode is in the
\* Hierarchy acc.tree; acc.visits are the entries recursed into so far.
\* child = tree_node.add(item) is None when Node.new(item) raises; the
\* recursion is taken for item.is_dir() and item.name not in exclusions and
\* child.
RECURSIVE collect_data_recurse(_, _, _, _, _)
collect_data_recurse(p, q, tree_node, k, acc) ==
    IF k > Len(p.entries) THEN acc
    ELSE LET item == p.entries[k]
             child == IF item.ok THEN add_returns(acc.tree, tree_node, item.node)
                      ELSE NoReturn
             added == IF item.ok THEN add(acc.tree, tree_node, item.node)
                      ELSE acc.tree
         IN  IF is_dir(item.node) /\ ~item.excluded /\ child.kind # "None"
             THEN collect_data_recurse(p, q, tree_node, k + 1,
                      collect_data_recurse(item, Append(q, k), child.path, 1,
                          [tree |-> added, visits |-> Append(acc.visits, Append(q, k))]))
             ELSE collect_data_recurse(p, q, tree_node, k + 1,
                      [tree |-> added, visits |-> acc.visits])

\* generator.collect_data: p.iterdir() of a file raises NotADirectoryError
\* after TreeNode.new(p) made the root
collect_data(p) ==
    IF ~is_dir(p.node)
    THEN [tree |-> NoTree, visits |-> << <<>> >>,
          raised |-> Err("NotADirectoryError", 0)]
    ELSE LET r == collect_data_recurse(p, <<>>, <<>>, 1,
                      [tree |-> new(p.node), visits |-> << <<>> >>])
         IN  [tree |-> <<r.tree>>, visits |-> r.visits, raised |-> NoError]

\* root = collect_data(p, exclusions)
CollectData ==
    /\ treenode = NoTree
    /\ last.op = "init"
    /\ \E p \in Listings :
         \E r \in {collect_data(p)} :
           /\ listing' = <<p>>
           /\ visits' = r.visits
           /\ treenode' = r.tree
           /\ raised' = r.raised
           /\ last' = Call("collect_data", p.node.tag)
    /\ UNCHANGED <<store, written, filetype, id_dict, tn_dict, validation, counts,
                   returned, report>>

NextCollect ==
    \/ CollectData
    \/ PickleDataset

SpecCollect == InitGenerator /\ [][NextCollect]_vars

(***************************************************************************)
(* customs.main: --import ift --export eft [--validate].  NodeStats keeps  *)
(* (dirs, files) per label, the label being the case and the format.      *)
(***************************************************************************)
Stat(label, dirs, files) == [label |-> label, dirs |-> dirs, files |-> files]

\* NodeStats._calculate_treenode, on the counts acc of the label
RECURSIVE calculate_treenode(_, _)
RECURSIVE calculate_dirs(_, _)
calculate_treenode(acc, collection) ==
    LET a1 == IF Falsy(collection.me.parent_id) THEN [acc EXCEPT !.dirs = 1] ELSE acc
        a2 == [a1 EXCEPT !.dirs = @ + Len(collection.dirs),
                         !.files = @ + Len(collection.files)]
    IN  calculate_dirs(a2, collection.dirs)

\* for d in collection.dirs: self._calculate_treenode(label, d)
calculate_dirs(acc, ds) ==
    IF ds = <<>> THEN acc
    ELSE calculate_dirs(calculate_treenode(acc, Head(ds)), Tail(ds))

\* NodeStats._calculate_dict
calculate_dict(acc, collection) ==
    [acc EXCEPT !.dirs = @ + CountDirs(collection),
                !.files = @ + Len(collection) - CountDirs(collection)]

\* what read() returned: the TreeNode (or None) of a pickle, None for
\* PROTOBUF, the id_dict otherwise
ReadResult(c) ==
    IF c.filetype = "PICKLE"
    THEN [kind |-> IF c.treenode = NoTree THEN "None" ELSE "TreeNode",
          tree |-> c.treenode, dict |-> <<>>]
    ELSE IF c.filetype = "PROTOBUF"
    THEN [kind |-> "None", tree |-> NoTree, dict |-> <<>>]
    ELSE [kind |-> "dict", tree |-> NoTree, dict |-> c.id_dict]

\* NodeStats.add: self.stats is a defaultdict, a label seen before keeps
\* its counts; None has no values()
NodeStatsAdd(stats, label, collection) ==
    LET known == {i \in 1 .. Len(stats) : stats[i].label = label}
        acc == IF known = {} THEN Stat(label, 0, 0)
               ELSE stats[CHOOSE i \in known : TRUE]
        new_acc == IF collection.kind = "TreeNode"
                   THEN calculate_treenode(acc, collection.tree[1])
                   ELSE calculate_dict(acc, collection.dict)
    IN  IF collection.kind = "None"
        THEN [stats |-> stats, raised |-> Err("AttributeError", 0)]
        ELSE [stats |-> IF known = {} THEN Append(stats, new_acc)
                        ELSE [i \in 1 .. Len(stats) |->
                                IF i \in known THEN new_acc ELSE stats[i]],
              raised |-> NoError]

\* customs.main after the arguments are accepted and the import file exists
main(ift, eft, args_validate, st) ==
    LET r == read(Customs(ift), st)
        w == write(r.c, eft, st)
        st2 == [st EXCEPT ![eft] = w.file]
        r2 == read(Customs(eft), st2)
        s1 == NodeStatsAdd(<<>>, ift, ReadResult(r.c))
        s2 == NodeStatsAdd(s1.stats, eft, ReadResult(r2.c))
        done(c, store2, recs, err, rep) ==
            [c |-> c, store |-> store2, wrote |-> r.raised = NoError,
             records |-> recs, raised |-> err, report |-> rep]
    IN  IF r.raised # NoError THEN done(r.c, st, <<>>, r.raised, <<>>)
        ELSE IF w.raised # NoError \/ ~args_validate
        THEN done(r.c, st2, w.records, w.raised, <<>>)
        ELSE IF r2.raised # NoError THEN done(r2.c, st2, w.records, r2.raised, <<>>)
        ELSE IF s1.raised # NoError THEN done(r2.c, st2, w.records, s1.raised, <<>>)
        ELSE IF s2.raised # NoError THEN done(r2.c, st2, w.records, s2.raised, <<>>)
        ELSE done(r2.c, st2, w.records, NoError, s2.stats)

\* ./customs.py --case <case> --import ift --export eft [--validate]
Main(ift, eft, args_validate) ==
    /\ store[ift].exists
    /\ store[eft].exists \/ eft = "PROTOBUF" \/ Cardinality(Archives) < MaxArchives
    /\ \E m \in {main(ift, eft, args_validate, store)} :
           /\ store' = m.store
           /\ written' = IF eft = "PROTOBUF" \/ ~m.wrote THEN written
                         ELSE [written EXCEPT ![eft] = m.records]
           /\ filetype' = m.c.filetype
           /\ treenode' = m.c.treenode
           /\ id_dict' = m.c.id_dict
           /\ tn_dict' = m.c.tn_dict
           /\ raised' = m.raised
           /\ report' = m.report
    /\ last' = Call(IF args_validate THEN "main --validate" ELSE "main", ift)
    /\ UNCHANGED <<validation, counts, returned, listing, visits>>

NextMain ==
    \E ift, eft \in FileType, args_validate \in BOOLEAN :
        Main(ift, eft, args_validate)

SpecMain == Init /\ [][NextMain]_vars

(***************************************************************************)
(* One Customs object used again after the archives of its case have been  *)
(* regenerated: the generator pickles the directory anew and the bench     *)
(* rewrites every other format from that pickle, while the object lives.   *)
(***************************************************************************)
\* what pickle_dataset pickles for a directory that holds no links: the
\* root's parent removed, every other record regular
Datasets == {h \in Hierarchies : Regular(h) /\ h.me.parent_id = 0}

\* c = Customs(case, ft) for a format other than pickle, once the bench has
\* written the read targets
ReuseNew(ft) ==
    /\ last.op = "create_read_targets"
    /\ ft # "PICKLE"
    /\ CustomsNew(ft)

\* pickle_dataset(p, case, exclusions) and Bench._create_read_targets(True)
\* run again for the case, after the object has built its treenode
Regenerate ==
    /\ last = Call("translate", "reconstruct")
    /\ raised = NoError
    /\ \E h \in Datasets :
         \E w \in {write([Customs("PICKLE") EXCEPT !.treenode = <<h>>],
                         "PICKLE", store)} :
           \E t \in {create_read_targets([store EXCEPT !["PICKLE"] = w.file])} :
              /\ store' = t.store
              /\ written' = [written EXCEPT !["PICKLE"] = w.records]
    /\ last' = Call("regenerate", "")
    /\ UNCHANGED <<filetype, treenode, id_dict, tn_dict, raised, validation,
                   counts, returned, report, listing, visits>>

NextReuse ==
    \/ CreateReadTargets
    \/ \E ft \in FileType : ReuseNew(ft)
    \/ Read
    \/ Translate
    \/ Regenerate

SpecReuse == Init /\ [][NextReuse]_vars

(***************************************************************************)
(* Properties.                                                             *)
(***************************************************************************)
\* the Hierarchy in the pickle archive, when it holds one
Pickled == store["PICKLE"].tree

PermutationsOf(s) ==
    {[i \in 1 .. Len(s) |-> s[f[i]]] : f \in Permutations(1 .. Len(s))}

Reconstructed == last = Call("translate", "reconstruct")

\* C1 as claimed: validity is unique ids and the root as the one record with
\* no parent
Valid0(tn) ==
    LET s == node_iter(tn)
    IN  /\ UniqueIds(tn)
        /\ \A i \in 1 .. Len(s) : Falsy(s[i].parent_id) <=> i = 1

\* translate() returned a Hierarchy with the records of h, and h itself when
\* id_dict has the order of h
RoundTrip(h) ==
    /\ raised = NoError
    /\ treenode # NoTree
    /\ Range(node_iter(treenode[1])) = Range(node_iter(h))
    /\ id_dict = to_id_dict(h) =>
          node_iter(treenode[1]) = node_iter(h) /\ treenode[1] = h

\* C1 (as claimed): for any Hierarchy H with unique ids and exactly one
\* parentless record, its root, translate() from to_id_dict(H) rebuilds a
\* Hierarchy with the same set of records, and the same Hierarchy when the
\* id_dict keeps the traversal order.
C1_Original ==
    (/\ Reconstructed
     /\ Pickled # NoTree
     /\ Valid0(Pickled[1])
     /\ DictEq(id_dict, to_id_dict(Pickled[1])))
        => RoundTrip(Pickled[1])

\* C1 (amended): for any Hierarchy H that has unique ids, a parentless
\* directory root and, for every other record, a parent_id equal to the id
\* of the node holding it, translate() from to_id_dict(H) rebuilds H itself
\* when the id_dict keeps the traversal order, and from the same records in
\* any order a Hierarchy with the same set of records.
C1_RoundTrip ==
    (/\ Reconstructed
     /\ Pickled # NoTree
     /\ Regular(Pickled[1])
     /\ DictEq(id_dict, to_id_dict(Pickled[1])))
        => /\ RoundTrip(Pickled[1])
           /\ \A d \in PermutationsOf(to_id_dict(Pickled[1])) :
                \E r \in {translate([Customs(filetype) EXCEPT !.id_dict = d])} :
                    /\ r.raised = NoError
                    /\ r.c.treenode # NoTree
                    /\ Range(node_iter(r.c.treenode[1])) = Range(node_iter(Pickled[1]))

\* a Hierarchy of a root, a subdirectory and a file in it was rebuilt
C1_Witness ==
    /\ Reconstructed
    /\ Pickled # NoTree
    /\ Regular(Pickled[1])
    /\ Len(Pickled[1].dirs) = 1
    /\ Len(Pickled[1].dirs[1].files) = 1
    /\ id_dict = to_id_dict(Pickled[1])
    /\ treenode = Pickled

DirIds(d) == {d[i].id : i \in {j \in 1 .. Len(d) : is_dir(d[j])}}

\* the records of a Flat Index that are not a root (a parentless directory)
\* and whose parent_id is the id of no directory record
Unresolved(d) ==
    {n \in Range(d) :
        /\ ~is_dir(n) \/ ~Falsy(n.parent_id)
        /\ n.parent_id \notin DirIds(d)}

\* the scenario of the spec: R(1), S(2), A(3), B(4) in S, C(5) in R
ScenarioR == Node(1, "Directory", 0)
ScenarioS == Node(2, "Directory", 1)
ScenarioA == Node(3, "File", 2)
ScenarioB == Node(4, "File", 2)
ScenarioC == Node(5, "File", 1)
ScenarioWithout2 == <<ScenarioR, ScenarioC, ScenarioA, ScenarioB>>

\* C2: translate() from an id_dict in which a record that is not a root has
\* a parent_id that is the id of no directory record raises the lookup
\* error naming such a parent_id (KeyError is the code's MissingParent);
\* with record 2 removed from the scenario it names 2.
C2_MissingParent ==
    /\ (Reconstructed /\ Unresolved(id_dict) # {})
          => /\ raised.kind = "KeyError"
             /\ raised.key \in {n.parent_id : n \in Unresolved(id_dict)}
    /\ Reconstructed =>
          translate([Customs(filetype) EXCEPT !.id_dict = ScenarioWithout2]).raised
              = Err("KeyError", 2)

\* a file record whose parent is no directory of the Flat Index made
\* translate() fail, naming that parent
C2_Witness ==
    /\ Reconstructed
    /\ raised.kind = "KeyError"
    /\ \E n \in Unresolved(id_dict) : ~is_dir(n) /\ n.parent_id = raised.key
    /\ DirIds(id_dict) # {}

Parentless(d) == {i \in 1 .. Len(d) : Falsy(d[i].parent_id)}

\* C3: translate() from an id_dict with two parentless records fails; it
\* never completes keeping one parentless directory as the root.
C3_MultipleRoots ==
    (Reconstructed /\ Cardinality(Parentless(id_dict)) >= 2) => raised # NoError

\* C4: translate() from a non-empty id_dict with no parentless record
\* fails; it never returns normally with treenode unset.
C4_NoRoot ==
    (/\ Reconstructed
     /\ Parentless(id_dict) = {}
     /\ Pickled # NoTree
     /\ UniqueIds(Pickled[1])) => raised # NoError

Flattened == last = Call("translate", "flatten") /\ treenode # NoTree

CsvIds == [i \in 1 .. Len(store["CSV"].rows) |-> store["CSV"].rows[i].id]

\* C5: records with a repeated id are rejected: to_id_dict (translate() of a
\* Hierarchy) and read() of an archive end with an error instead of keeping
\* the last record of the id.
C5_DuplicatesRejected ==
    /\ (Flattened /\ ~UniqueIds(treenode[1])) => raised # NoError
    /\ (/\ last = Call("read", "CSV")
        /\ \E i, j \in 1 .. Len(CsvIds) : i # j /\ CsvIds[i] = CsvIds[j])
          => raised # NoError

\* what read() returned, as a set of records
RecordsRead ==
    IF filetype = "PICKLE"
    THEN IF treenode = NoTree THEN {} ELSE Range(node_iter(treenode[1]))
    ELSE Range(id_dict)

\* C6: read() of an archive that write() made from a dataset returns the
\* records written, as a set, for every format that has an adapter and for a
\* root with parent_id None as for one with parent_id 0.
C6_WriteReadRoundTrip ==
    (/\ last = Call("read", filetype)
     /\ filetype # "PROTOBUF"
     /\ store[filetype].exists
     /\ Pickled # NoTree
     /\ Regular(Pickled[1])
     /\ Range(written[filetype]) = Range(node_iter(Pickled[1])))
        => raised = NoError /\ RecordsRead = Range(written[filetype])

\* C7: for a dataset as the generator pickles it, Bench.validate() ends
\* without an exception or a failed assertion: every format of
\* all_but_pickle reads and translates to the pickle's collections.
C7_ValidatePasses ==
    (/\ validation # "none"
     /\ Pickled # NoTree
     /\ Regular(Pickled[1])
     /\ Pickled[1].me.parent_id = 0) => validation = "passed"

\* C8: node_iter() yields D + F records, D of them directories, where D
\* (the root included) and F are the directories and files counted over
\* len(dirs) and len(files); node_counts() returns (D, F).
C8_NodeCounts ==
    /\ treenode # NoTree =>
          LET t == treenode[1]
              sc == treenode_counts(t)
          IN  /\ Len(node_iter(t)) = sc[1] + sc[2]
              /\ CountDirs(node_iter(t)) = sc[1]
              /\ node_counts(t) = sc
    /\ last.op = "node_counts" => counts = treenode_counts(treenode[1])

\* node_counts() counted a Hierarchy of two directories and a file
C8_Witness == last.op = "node_counts" /\ counts = <<2, 1>>

\* C9: to_id_dict() of any Hierarchy has as many entries as node_iter()
\* yields, and every id of the Hierarchy is a key.
C9_IdDictSize ==
    Flattened =>
        /\ Len(id_dict) = Len(node_iter(treenode[1]))
        /\ \A n \in Range(node_iter(treenode[1])) : n.id \in Keys(id_dict)

Size(tn) == treenode_counts(tn)[1] + treenode_counts(tn)[2]

\* where the traversal of child i of tn starts in the traversal of tn, less one
Offset(tn, i) ==
    1 + Len(tn.files) + SumSeq([j \in 1 .. (i - 1) |-> Size(tn.dirs[j])])

\* the scenario Hierarchy, built with add in the order C, S, A, B and in the
\* order S, A, C, B
ScenarioTree ==
    add(add(add(add(new(ScenarioR), <<>>, ScenarioC), <<>>, ScenarioS),
            <<1>>, ScenarioA), <<1>>, ScenarioB)
ScenarioTreeDirFirst ==
    add(add(add(add(new(ScenarioR), <<>>, ScenarioS), <<1>>, ScenarioA),
            <<>>, ScenarioC), <<1>>, ScenarioB)

\* C11: node_iter() of every node yields the node's own record first, then
\* its files in insertion order, then the whole traversal of each child in
\* insertion order; for the scenario the sequence is R, C, S, A, B.
C11_TraversalOrder ==
    /\ treenode # NoTree =>
          \A n \in Range(iter(treenode[1])) :
              LET s == node_iter(n)
              IN  /\ s[1] = n.me
                  /\ SubSeq(s, 2, 1 + Len(n.files)) = n.files
                  /\ \A i \in 1 .. Len(n.dirs) :
                        SubSeq(s, Offset(n, i) + 1, Offset(n, i) + Size(n.dirs[i]))
                            = node_iter(n.dirs[i])
                  /\ Len(s) = Size(n)
    /\ last.op = "add" =>
          /\ node_iter(ScenarioTree)
                = <<ScenarioR, ScenarioC, ScenarioS, ScenarioA, ScenarioB>>
          /\ node_iter(ScenarioTreeDirFirst) = node_iter(ScenarioTree)

\* a file was added to a root that already had a subdirectory, and is
\* yielded before it
C11_Witness ==
    /\ last = Call("add", "File")
    /\ returned = Returned("self", <<>>)
    /\ Len(treenode[1].dirs) = 1
    /\ Len(treenode[1].files) = 1
    /\ node_iter(treenode[1])[2] = treenode[1].files[1]
    /\ node_iter(treenode[1])[3] = treenode[1].dirs[1].me

ScenarioCsv(parent) ==
    LET h == [ScenarioTree EXCEPT !.me.parent_id = parent]
        c == [Customs("PICKLE") EXCEPT !.treenode = <<h>>]
        w == write(c, "CSV", [ft \in FileType |-> Absent])
    IN  Load("CSV", [ft \in FileType |-> IF ft = "CSV" THEN w.file ELSE Absent])

\* C12: the scenario written with the CSV adapter, read back and translated
\* is the Hierarchy with root R, root.files == [C], root.dirs[0].me.id == 2
\* and A and B as the files of root.dirs[0], whether the parent id of R is
\* absent (None) or zero.
C12_CsvScenario ==
    (filetype = "CSV" /\ last.op \in {"read", "translate"}) =>
        \A parent \in {None, 0} :
            \E l \in {ScenarioCsv(parent)} :
                /\ l.raised = NoError
                /\ l.c.treenode # NoTree
                /\ l.c.treenode[1].me = [ScenarioR EXCEPT !.parent_id = parent]
                /\ l.c.treenode[1].files = <<ScenarioC>>
                /\ l.c.treenode[1].dirs[1].me.id = 2
                /\ Range(l.c.treenode[1].dirs[1].files) = {ScenarioA, ScenarioB}
                /\ Len(l.c.treenode[1].dirs[1].files) = 2

\* C13: TreeNode.new fails for a record that is not a directory: the own
\* record of a Hierarchy is never a File.
C13_RootIsDirectory ==
    treenode # NoTree => is_dir(treenode[1].me)

RECURSIVE ReplaceAt(_, _, _)
ReplaceAt(tn, path, sub) ==
    IF path = <<>> THEN sub
    ELSE [tn EXCEPT !.dirs[Head(path)] = ReplaceAt(@, Tail(path), sub)]

Front(path) == SubSeq(path, 1, Len(path) - 1)

\* C14: add() of a directory record appends a new child with empty files and
\* dirs at the end of dirs, returns it and leaves files as they were; add()
\* of a file record appends it at the end of files, leaves dirs as they
\* were and returns no new node (self); when no record could be made
\* nothing changes and None is returned; the rest of the Hierarchy is as it
\* was.
C14_AddFrame ==
    [][last'.op = "add" =>
         LET pre == treenode[1]
             post == treenode'[1]
             p == IF returned'.kind = "child" THEN Front(returned'.path)
                  ELSE returned'.path
             a == NodeAt(pre, p)
             b == NodeAt(post, p)
         IN  /\ last'.arg = "Directory" =>
                   /\ returned'.kind = "child"
                   /\ b.files = a.files
                   /\ Len(b.dirs) = Len(a.dirs) + 1
                   /\ SubSeq(b.dirs, 1, Len(a.dirs)) = a.dirs
                   /\ returned'.path = Append(p, Len(b.dirs))
                   /\ is_dir(b.dirs[Len(b.dirs)].me)
                   /\ b.dirs[Len(b.dirs)].files = <<>>
                   /\ b.dirs[Len(b.dirs)].dirs = <<>>
                   /\ ReplaceAt(post, p, a) = pre
             /\ last'.arg = "File" =>
                   /\ returned'.kind = "self"
                   /\ b.dirs = a.dirs
                   /\ Len(b.files) = Len(a.files) + 1
                   /\ SubSeq(b.files, 1, Len(a.files)) = a.files
                   /\ ~is_dir(b.files[Len(b.files)])
                   /\ b.me = a.me
                   /\ ReplaceAt(post, p, a) = pre
             /\ last'.arg = "exception" =>
                   returned' = NoReturn /\ treenode' = treenode]_vars

\* a subdirectory of the root got a child directory of its own
C14_Witness ==
    /\ last = Call("add", "Directory")
    /\ returned = Returned("child", <<1, 1>>)
    /\ Len(treenode[1].dirs[1].dirs) = 1

\* C15: write(kind) and read() never return normally as a no-op: after a
\* write that raised nothing the archive of the format exists, and a read
\* that raised nothing has decoded an archive, for every FileType.
C15_NoSilentNoOp ==
    /\ last.op = "write" => raised # NoError \/ store[last.arg].exists
    /\ last.op = "read" => raised # NoError \/ store[filetype].exists

\* C16: write() of a list format by a Customs that holds a Hierarchy and an
\* empty id_dict (pickle read, no translate()) fails instead of writing an
\* archive of zero records.
C16_FlatOnlyRejectsHierarchy ==
    (/\ last.op = "write"
     /\ last.arg \in ListFormats
     /\ treenode # NoTree
     /\ id_dict = <<>>) => raised # NoError

RecordsOf(result) ==
    IF result.kind = "TreeNode" THEN Range(node_iter(result.tree[1]))
    ELSE Range(result.dict)

\* C17: main converting one implemented format to another (read() of the
\* import, write() of the export, no translate()) ends without an
\* exception and leaves an export archive that decodes to the records of
\* the import archive, with the same counts in the report of --validate.
C17_ConvertKeepsRecords ==
    /\ (/\ last.op = "main --validate"
        /\ filetype # last.arg
        /\ filetype # "PROTOBUF"
        /\ Pickled # NoTree
        /\ Regular(Pickled[1]))
          => /\ raised = NoError
             /\ RecordsOf(ReadResult(self))
                   = RecordsOf(ReadResult(read(Customs(last.arg), store).c))
             /\ Len(report) = 2
             /\ report[1].dirs = report[2].dirs
             /\ report[1].files = report[2].files
    /\ (last.op \in {"main", "main --validate"} /\ filetype # "PROTOBUF")
          => raised.kind # "AttributeError"

\* the texts csv.DictWriter writes for the integers a cell can hold
NumTexts == {IntToText(n) : n \in 0 .. (MaxNodes + 1)}

CsvRows == store["CSV"].rows

NumericCellsParse(line) == line.id \in NumTexts /\ line.parent_id \in NumTexts

\* C18: read() of a CSV archive parses every field not declared str with
\* int() and leaves the str fields as read: it raises ValueError when a
\* numeric cell of some row is not the text of an integer, it decodes every
\* row otherwise, and each record it keeps has integers in its numeric
\* fields, the ones its row spells.
C18_CsvCoercion ==
    (last = Call("read", "CSV") /\ store["CSV"].exists) =>
        /\ (\E i \in 1 .. Len(CsvRows) : ~NumericCellsParse(CsvRows[i]))
              => raised = Err("ValueError", 0)
        /\ (\A i \in 1 .. Len(CsvRows) : NumericCellsParse(CsvRows[i]))
              => /\ raised = NoError
                 /\ \A i \in 1 .. Len(CsvRows) :
                       \E n \in Range(id_dict) : CellOf("id", n.id) = CsvRows[i].id
        /\ \A n \in Range(id_dict) :
              /\ n.id \in Nat
              /\ n.parent_id \in Nat
              /\ n.tag \in STRING
              /\ \E i \in 1 .. Len(CsvRows) : CsvRows[i] = CsvRow(n)

\* read() of a CSV archive stopped with ValueError at a row after the first
C18_Witness ==
    /\ last = Call("read", "CSV")
    /\ raised = Err("ValueError", 0)
    /\ Len(id_dict) >= 1
    /\ Len(CsvRows) > Len(id_dict)

\* C19: in the Hierarchy translate() makes from an id_dict every file of a
\* node and every child in its dirs has the id of the node's own record as
\* parent_id, and only the root's record has an absent or zero parent_id.
C19_EdgesAgree ==
    (Reconstructed /\ treenode # NoTree) =>
        LET s == node_iter(treenode[1])
            h == holder_iter(treenode[1], 0)
        IN  /\ Falsy(s[1].parent_id)
            /\ \A i \in 2 .. Len(s) :
                  s[i].parent_id = h[i] /\ ~Falsy(s[i].parent_id)

\* translate() rebuilt a root, a subdirectory and a subdirectory of that
C19_Witness ==
    /\ Reconstructed
    /\ raised = NoError
    /\ treenode # NoTree
    /\ Len(treenode[1].dirs) = 1
    /\ Len(treenode[1].dirs[1].dirs) = 1

\* C20: for a dataset with unique ids, a translate() from an id_dict that
\* raises leaves treenode, tn_dict and id_dict as they were before the call,
\* and a translate() right after it raises again.
C20_FailedTranslateKeepsState ==
    [][(Pickled # NoTree /\ UniqueIds(Pickled[1])) =>
         /\ (last' = Call("translate", "reconstruct") /\ raised' # NoError)
              => treenode' = treenode /\ tn_dict' = tn_dict /\ id_dict' = id_dict
         /\ (/\ last = Call("translate", "reconstruct")
             /\ raised # NoError
             /\ last'.op = "translate") => raised' # NoError]_vars

\* C21: whenever translate() returns normally from an id_dict that has one
\* parentless record, the records treenode.node_iter() yields are the
\* records of id_dict, each once, also when a directory record names itself
\* or another directory that names it as its parent.
C21_AllReachableOnce ==
    (/\ Reconstructed
     /\ raised = NoError
     /\ Cardinality(Parentless(id_dict)) = 1)
        => /\ treenode # NoTree
           /\ Range(node_iter(treenode[1])) = Range(id_dict)
           /\ Len(node_iter(treenode[1])) = Len(id_dict)

\* C22: on a Customs object of a format other than pickle, a read() that
\* decoded its archive followed by translate() leaves id_dict the records of
\* that read, and treenode and tn_dict what translate() builds from them on
\* a new object, whatever was read and translated on the object before.
C22_ReadThenTranslateIsFresh ==
    [][(/\ last.op = "read"
        /\ raised = NoError
        /\ filetype \notin {"PICKLE", "PROTOBUF"}
        /\ Pickled # NoTree
        /\ Regular(Pickled[1])
        /\ treenode # NoTree => Regular(treenode[1])
        /\ last'.op = "translate")
          => \E r \in {translate([Customs(filetype) EXCEPT !.id_dict = id_dict])} :
                /\ id_dict' = id_dict
                /\ treenode' = r.c.treenode
                /\ tn_dict' = r.c.tn_dict
                /\ raised' = r.raised]_vars

DirIndex(e, i) ==
    Cardinality({j \in 1 .. i : e.entries[j].ok /\ is_dir(e.entries[j].node)})

RECURSIVE TreePathOf(_, _)
TreePathOf(e, q) ==
    IF q = <<>> THEN <<>>
    ELSE <<DirIndex(e, Head(q))>> \o TreePathOf(e.entries[Head(q)], Tail(q))

Visited(q) == q \in Range(visits)

\* C24: in collect_data, an entry that Node.new cannot make a record of adds
\* nothing to the files and dirs of the node being filled and is not
\* recursed into; an entry added as a directory and not excluded is recursed
\* into exactly once; an excluded directory is a node with empty files and
\* dirs; nothing below an entry that is not recursed into is catalogued.
C24_CollectDescends ==
    (last.op = "collect_data" /\ raised = NoError) =>
        LET p == listing[1]
            tn == treenode[1]
        IN  \A q \in EntryPaths(p) \ {<<>>} :
              LET item == EntryAt(p, q)
                  holder == EntryAt(p, Front(q))
              IN  /\ ~Visited(Front(q)) =>
                        ~Visited(q) /\ item.node \notin Range(node_iter(tn))
                  /\ Visited(Front(q)) =>
                      LET htn == NodeAt(tn, TreePathOf(p, Front(q)))
                      IN  /\ htn.me = holder.node
                          /\ Len(htn.files) + Len(htn.dirs) =
                               Cardinality({i \in 1 .. Len(holder.entries) :
                                               holder.entries[i].ok})
                          /\ ~item.ok =>
                                ~Visited(q) /\ item.node \notin Range(node_iter(tn))
                          /\ (item.ok /\ ~is_dir(item.node)) =>
                                ~Visited(q) /\ item.node \in Range(htn.files)
                          /\ (item.ok /\ is_dir(item.node) /\ ~item.excluded) =>
                                Cardinality({i \in 1 .. Len(visits) : visits[i] = q}) = 1
                          /\ (item.ok /\ is_dir(item.node) /\ item.excluded) =>
                                /\ ~Visited(q)
                                /\ NodeAt(tn, TreePathOf(p, q)) = new(item.node)

\* a directory was collected in which Node.new fails for a subdirectory that
\* has an entry of its own
C24_Witness ==
    /\ last.op = "collect_data"
    /\ raised = NoError
    /\ \E q \in EntryPaths(listing[1]) \ {<<>>} :
          /\ ~EntryAt(listing[1], q).ok
          /\ is_dir(EntryAt(listing[1], q).node)
          /\ EntryAt(listing[1], q).entries # <<>>
          /\ Visited(Front(q))

\* C25: remove_root_parent(root), as pickle_dataset applies it, returns a
\* Hierarchy whose own record is the root's record with parent_id 0 and
\* every other field as it was, and whose files and dirs are the root's
\* files and dirs, the same elements in the same order; every record other
\* than the root's is unchanged, has the parent_id it had, and the root's is
\* the only record with no parent.
C25_RemoveRootParent ==
    [][last'.op = "pickle_dataset" =>
         LET root == treenode[1]
             result == treenode'[1]
             s == node_iter(result)
         IN  /\ result.me = [root.me EXCEPT !.parent_id = 0]
             /\ result.me.id = root.me.id /\ result.me.tag = root.me.tag
             /\ result.files = root.files
             /\ result.dirs = root.dirs
             /\ Tail(s) = Tail(node_iter(root))
             /\ \A i \in 1 .. Len(result.files) :
                   root.files[i].parent_id = root.me.id
                      => result.files[i].parent_id = result.me.id
             /\ \A i \in 1 .. Len(result.dirs) :
                   root.dirs[i].me.parent_id = root.me.id
                      => result.dirs[i].me.parent_id = result.me.id
             /\ \A i \in 1 .. Len(s) : Falsy(s[i].parent_id) <=> i = 1
             /\ store'["PICKLE"].tree = <<result>>]_vars

\* a root holding a file and a subdirectory was pickled with its parent
\* removed
C25_Witness ==
    /\ last.op = "pickle_dataset"
    /\ treenode # NoTree
    /\ treenode[1].me.parent_id = 0
    /\ Len(treenode[1].files) >= 1
    /\ Len(treenode[1].dirs) >= 1
    /\ store["PICKLE"].tree = treenode

=============================================================================
